---- MODULE Spec2Model ----
(***************************************************************************)
(* A model of compiler.py: the finite-state lexer                          *)
(* lexical_analyzer_from_text and the recursive-descent Parser, chained as *)
(* run_compiler chains them.                                               *)
(*                                                                         *)
(* A character is a one-character string; a text (source code, a token's   *)
(* text) is a sequence of characters, so "int" is <<"i", "n", "t">> and    *)
(* the empty string is <<>>.  The string "U+00BD" stands for the single    *)
(* character VULGAR FRACTION ONE HALF, for which Python's isalnum() is     *)
(* true while isalpha() and isdigit() are false.                           *)
(* A token is the tuple <<type, text, line, col>> of the source.           *)
(***************************************************************************)
EXTENDS Integers, Sequences, FiniteSets, TLC

VARIABLES
    pc,        \* where run_compiler is: "lex", "lexed", "parse", "done", "error"
    code,      \* the source text given to lexical_analyzer_from_text
    i,         \* lexer: index of the next character (0-based, as in the source)
    line,      \* lexer: current line
    col,       \* lexer: current column
    tokens,    \* the token list (built by the lexer, read by the Parser)
    starts,    \* history: for each token, the value of i where it began
    iters,     \* history: the iterations of the lexer's outer loop so far
    current,   \* Parser.current (0-based, as in the source)
    stack,     \* the Parser's call stack, innermost call last
    ret,       \* the value returned by the call that returned last
    result,    \* what parse_program returned or raised
    maxread,   \* history: the highest index Parser.peek has read, -1 if none
    steps,     \* history: the steps the Parser's methods have taken
    marks      \* history: for each frame of the stack, the cursor at its call

vars == <<pc, code, i, line, col, tokens, starts, iters, current, stack, ret, result,
          maxread, steps, marks>>

lexvars == <<code, i, line, col, tokens, starts, iters>>
parsevars == <<current, stack, ret, result, maxread, steps, marks>>

\* Python's None; as an expected_value it is falsy like the empty string.
None == <<>>

(***************************************************************************)
(* Bounds of the model.                                                    *)
(***************************************************************************)
\* every source text over Chars of at most this length is an input
MaxLen == 3

(***************************************************************************)
(* TOKEN DEFINITIONS                                                       *)
(***************************************************************************)
KEYWORDS == { <<"i","n","t">>, <<"f","l","o","a","t">>, <<"d","o","u","b","l","e">>,
              <<"i","f">>, <<"e","l","s","e">> }
OPERATORS == {"+", "-", "*", "/", "%", "=", "<", ">", "!"}
DOUBLE_OPERATORS == { <<"=","=">>, <<"!","=">>, <<"<","=">>, <<">","=">> }
SIGNS == {";", "(", ")", "{", "}"}

(***************************************************************************)
(* The character classes of Python's str methods, on the characters the    *)
(* model uses.                                                             *)
(***************************************************************************)
Letters == {"a","b","d","e","f","g","i","l","n","o","r","s","t","u","x","y","z"}
Digits == {"1", "2", "3", "5"}
Spaces == {" ", "\t", "\n"}
HalfChar == "U+00BD"

isspace(ch) == ch \in Spaces
isalpha(ch) == ch \in Letters
isdigit(ch) == ch \in Digits
isalnum(ch) == ch \in Letters \cup Digits \cup {HalfChar}

(***************************************************************************)
(* LEXER                                                                   *)
(***************************************************************************)
\* next_state with state 8 extended by a character that begins no other token
next_state_UnknownExtends(state, ch) ==
    IF state = 0 THEN
        IF isspace(ch) THEN 0
        ELSE IF isalpha(ch) \/ ch = "_" THEN 1
        ELSE IF isdigit(ch) THEN 3
        ELSE IF ch \in OPERATORS THEN 6
        ELSE IF ch \in SIGNS THEN 7
        ELSE 8
    ELSE IF state = 1 THEN (IF isalnum(ch) \/ ch = "_" THEN 1 ELSE -1)
    ELSE IF state = 3 THEN (IF isdigit(ch) THEN 3 ELSE -1)
    ELSE IF state = 8 THEN
        (IF ~(isspace(ch) \/ isalpha(ch) \/ ch = "_" \/ isdigit(ch)
              \/ ch \in OPERATORS \/ ch \in SIGNS) THEN 8 ELSE -1)
    ELSE -1

\* next_state with the digit test of state 3 replaced by the alphanumeric one
next_state_IntegerTakesLetters(state, ch) ==
    IF state = 0 THEN
        IF isspace(ch) THEN 0
        ELSE IF isalpha(ch) \/ ch = "_" THEN 1
        ELSE IF isdigit(ch) THEN 3
        ELSE IF ch \in OPERATORS THEN 6
        ELSE IF ch \in SIGNS THEN 7
        ELSE 8
    ELSE IF state = 1 THEN (IF isalnum(ch) \/ ch = "_" THEN 1 ELSE -1)
    ELSE IF state = 3 THEN (IF isalnum(ch) THEN 3 ELSE -1)
    ELSE -1

next_state(state, ch) ==
    IF state = 0 THEN
        IF isspace(ch) THEN 0
        ELSE IF isalpha(ch) \/ ch = "_" THEN 1
        ELSE IF isdigit(ch) THEN 3
        ELSE IF ch \in OPERATORS THEN 6
        ELSE IF ch \in SIGNS THEN 7
        ELSE 8
    ELSE IF state = 1 THEN (IF isalnum(ch) \/ ch = "_" THEN 1 ELSE -1)
    ELSE IF state = 3 THEN (IF isdigit(ch) THEN 3 ELSE -1)
    ELSE -1

\* The inner while loop: s = [i, col, state, buffer] after the first character
\* of a token has been taken; the result is s when the loop is left.
RECURSIVE ExtendToken(_, _)
ExtendToken(src, s) ==
    IF s.i < Len(src) THEN
        LET next_ch == src[s.i + 1]
            new_state == next_state(s.state, next_ch)
        IN  IF new_state = -1 THEN s
            ELSE ExtendToken(src, [i |-> s.i + 1, col |-> s.col + 1,
                                   state |-> new_state,
                                   buffer |-> Append(s.buffer, next_ch)])
    ELSE s

\* WordType matching a keyword at the start of the buffer
WordType_Prefix(buffer) ==
    IF \E n \in 1..Len(buffer) : SubSeq(buffer, 1, n) \in KEYWORDS
    THEN "KEYWORD" ELSE "IDENTIFIER"

\* The classification of an identifier-shaped buffer.
WordType(buffer) == IF buffer \in KEYWORDS THEN "KEYWORD" ELSE "IDENTIFIER"

\* MergesDouble without the lookahead
MergesDouble_Never(src, s) == FALSE

\* Whether the operator in buffer merges with the character at s.i.
MergesDouble(src, s) ==
    /\ s.i < Len(src)
    /\ Append(s.buffer, src[s.i + 1]) \in DOUBLE_OPERATORS

\* The if/elif chain after the inner loop: the token appended and the
\* position the scan continues from.  L = [i, line, col, tokens].
EmitToken(src, L, s) ==
    LET tok(type, text) == <<type, text, L.line, L.col>>
        plain(type) == [i |-> s.i, line |-> L.line, col |-> s.col,
                        tokens |-> Append(L.tokens, tok(type, s.buffer))]
    IN  IF s.state = 1 THEN plain(WordType(s.buffer))
        ELSE IF s.state = 3 THEN plain("INTEGER")
        ELSE IF s.state = 6 THEN
            IF MergesDouble(src, s)
            THEN [i |-> s.i + 1, line |-> L.line, col |-> s.col + 1,
                  tokens |-> Append(L.tokens,
                                    tok("OPERATOR", Append(s.buffer, src[s.i + 1])))]
            ELSE plain("OPERATOR")
        ELSE IF s.state = 7 THEN plain("SIGN")
        ELSE plain("UNKNOWN")

\* NewlineStep without col = 1
NewlineStep_KeepColumn(L) == [L EXCEPT !.line = L.line + 1, !.i = L.i + 1]

\* One iteration of the outer while loop whose character is a newline.
NewlineStep(L) == [L EXCEPT !.line = L.line + 1, !.col = 1, !.i = L.i + 1]

\* SpaceStep without col += 1
SpaceStep_NoColumn(L) == [L EXCEPT !.i = L.i + 1]

\* SpaceStep without its two increments
SpaceStep_Stuck(L) == L

\* One iteration whose character is other whitespace.
SpaceStep(L) == [L EXCEPT !.i = L.i + 1, !.col = L.col + 1]

\* TokenStep without buffer = ch
TokenStep_EmptyBuffer(src, L) ==
    LET ch == src[L.i + 1]
    IN  EmitToken(src, L, ExtendToken(src, [i |-> L.i + 1, col |-> L.col + 1,
                                            state |-> next_state(0, ch),
                                            buffer |-> <<>>]))

\* One iteration that scans a token.
TokenStep(src, L) ==
    LET ch == src[L.i + 1]
    IN  EmitToken(src, L, ExtendToken(src, [i |-> L.i + 1, col |-> L.col + 1,
                                            state |-> next_state(0, ch),
                                            buffer |-> <<ch>>]))

\* One iteration of the outer while loop.
LexIteration(src, L) ==
    IF src[L.i + 1] = "\n" THEN NewlineStep(L)
    ELSE IF next_state(0, src[L.i + 1]) = 0 THEN SpaceStep(L)
    ELSE TokenStep(src, L)

\* The statement after the loop.
AppendEOF(L) == Append(L.tokens, <<"EOF", <<>>, L.line, L.col>>)

LexStart == [i |-> 0, line |-> 1, col |-> 1, tokens |-> <<>>]

\* The whole function: the loop run from L to the end of src.
RECURSIVE LexFrom(_, _)
LexFrom(src, L) ==
    IF L.i < Len(src) THEN LexFrom(src, LexIteration(src, L)) ELSE AppendEOF(L)

lexical_analyzer_from_text(src) == LexFrom(src, LexStart)

(***************************************************************************)
(* The lexer as steps of the state machine: one action per iteration of    *)
(* the outer loop.                                                         *)
(***************************************************************************)
LexState == [i |-> i, line |-> line, col |-> col, tokens |-> tokens]

SetLex(L) ==
    /\ i' = L.i
    /\ line' = L.line
    /\ col' = L.col
    /\ tokens' = L.tokens

LexNewline ==
    /\ pc = "lex"
    /\ i < Len(code)
    /\ code[i + 1] = "\n"
    /\ SetLex(NewlineStep(LexState))
    /\ iters' = iters + 1
    /\ UNCHANGED <<pc, code, starts, parsevars>>

LexSpace ==
    /\ pc = "lex"
    /\ i < Len(code)
    /\ code[i + 1] # "\n"
    /\ next_state(0, code[i + 1]) = 0
    /\ SetLex(SpaceStep(LexState))
    /\ iters' = iters + 1
    /\ UNCHANGED <<pc, code, starts, parsevars>>

LexToken ==
    /\ pc = "lex"
    /\ i < Len(code)
    /\ code[i + 1] # "\n"
    /\ next_state(0, code[i + 1]) # 0
    /\ SetLex(TokenStep(code, LexState))
    /\ starts' = Append(starts, i)
    /\ iters' = iters + 1
    /\ UNCHANGED <<pc, code, parsevars>>

LexEOF ==
    /\ pc = "lex"
    /\ ~(i < Len(code))
    /\ tokens' = AppendEOF(LexState)
    /\ starts' = Append(starts, i)
    /\ pc' = "lexed"
    /\ UNCHANGED <<code, i, line, col, iters, parsevars>>

LexNext == LexNewline \/ LexSpace \/ LexToken \/ LexEOF

(***************************************************************************)
(* PARSER                                                                  *)
(*                                                                         *)
(* A call of a Parser method is a frame [proc, at, a, b] on the stack: the *)
(* method, the place in its body where it continues, and its locals.  One  *)
(* action runs a method from one such place to its next call, return or    *)
(* raise, and calls match or advance at most once.                         *)
(***************************************************************************)
Frame(proc, at, a, b) == [proc |-> proc, at |-> at, a |-> a, b |-> b]

Top == stack[Len(stack)]
Below == SubSeq(stack, 1, Len(stack) - 1)

\* The stack with the running frame continuing at `at` with locals a, b.
Continue(at, a, b) == Append(Below, Frame(Top.proc, at, a, b))

\* The stack after the running frame, continuing at `at`, calls proc.
Call(at, a, b, proc) == Append(Continue(at, a, b), Frame(proc, "start", None, None))

At(proc, at) ==
    /\ pc = "parse"
    /\ stack # <<>>
    /\ Top.proc = proc
    /\ Top.at = at

\* Parser.peek: the token at the cursor.
peek == tokens[current + 1]

\* the history of peek's reads
Read == maxread' = IF current > maxread THEN current ELSE maxread

\* advance moving the cursor by two
advance_Twice == current' = current + 2

\* Parser.advance
advance == current' = current + 1

\* the history of a step that leaves newstack: a frame it has pushed is marked
\* with the cursor the step leaves
Step(newstack) ==
    /\ steps' = steps + 1
    /\ marks' = IF Len(newstack) > Len(marks) THEN Append(marks, current')
                ELSE SubSeq(marks, 1, Len(newstack))

\* Raise with the cursor moved past the token it names
Raise_AfterAdvance(message, tok) ==
    /\ pc' = "error"
    /\ result' = <<"SyntaxError", message, tok>>
    /\ stack' = <<>>
    /\ current' = current + 1
    /\ Step(<<>>)
    /\ UNCHANGED ret

\* raise SyntaxError(f"<message> {tok}"): the whole parse is unwound.
Raise(message, tok) ==
    /\ pc' = "error"
    /\ result' = <<"SyntaxError", message, tok>>
    /\ stack' = <<>>
    /\ Step(<<>>)
    /\ UNCHANGED <<current, ret>>

\* The running method goes on (after a call it makes, or at its next place).
Goto(newstack) ==
    /\ stack' = newstack
    /\ Step(newstack)
    /\ UNCHANGED <<pc, ret, result>>

\* return v: to the calling method, or from parse_program to run_compiler.
Return(v) ==
    /\ ret' = v
    /\ stack' = Below
    /\ Step(Below)
    /\ IF Below = <<>>
       THEN pc' = "done" /\ result' = v
       ELSE UNCHANGED <<pc, result>>

\* match without its two tests
match_Unchecked(expected_type, expected_value, continuation) ==
    /\ Read
    /\ advance
    /\ continuation

\* Parser.match, followed by what the caller does with the matched token.
match(expected_type, expected_value, continuation) ==
    /\ Read
    /\ IF peek[1] # expected_type
       THEN Raise("Unexpected token", peek)
       ELSE IF expected_value # None /\ peek[2] # expected_value
       THEN Raise("Unexpected token", peek)
       ELSE advance /\ continuation

\* the operator sets with '==' left out, and with '+' among the term operators
ExpressionOps_NoEquality == { <<"+">>, <<"-">>, <<"<">>, <<">">> }
\* the term operators with '%' among them
TermOps_WithModulo == { <<"*">>, <<"/">>, <<"%">> }
\* the type keywords without 'float'
TypeKeywords_NoFloat == { <<"i","n","t">>, <<"d","o","u","b","l","e">> }
TermOps_WithPlus == { <<"*">>, <<"/">>, <<"+">> }

\* The operators of the two loops, and the type keywords of parse_statement.
ExpressionOps == { <<"+">>, <<"-">>, <<"<">>, <<">">>, <<"=","=">> }
TermOps == { <<"*">>, <<"/">> }
TypeKeywords == { <<"i","n","t">>, <<"f","l","o","a","t">>, <<"d","o","u","b","l","e">> }

\* BinOp with its operands exchanged
BinOp_Swapped(op, left, right) == <<"BIN_OP", op, right, left>>

BinOp(op, left, right) == <<"BIN_OP", op, left, right>>

\* run_compiler: parser = Parser(tokens); parser.parse_program()
NewParser == <<Frame("parse_program", "start", <<>>, None)>>

RunParser ==
    /\ pc = "lexed"
    /\ pc' = "parse"
    /\ current' = 0
    /\ stack' = NewParser
    /\ marks' = <<0>>
    /\ UNCHANGED <<lexvars, ret, result, maxread, steps>>

\* parse_program: the while test, then the call of parse_statement or the return
ProgramLoop ==
    /\ At("parse_program", "start")
    /\ Read
    /\ UNCHANGED <<lexvars, current>>
    /\ IF peek[1] # "EOF"
       THEN Goto(Call("append", Top.a, None, "parse_statement"))
       ELSE Return(<<"PROGRAM", Top.a>>)

\* parse_program: statements.append(<the statement returned>)
ProgramAppend ==
    /\ At("parse_program", "append")
    /\ Goto(Continue("start", Append(Top.a, ret), None))
    /\ UNCHANGED <<lexvars, current, maxread>>

\* ParseStatement returning None for a token that begins no statement
ParseStatement_ReturnsNone ==
    /\ At("parse_statement", "start")
    /\ Read
    /\ IF peek[1] = "KEYWORD" /\ peek[2] \in TypeKeywords
       THEN Goto(Append(Below, Frame("parse_declaration", "start", None, None)))
       ELSE IF peek[1] = "KEYWORD" /\ peek[2] = <<"i","f">>
       THEN Goto(Append(Below, Frame("parse_if", "start", None, None)))
       ELSE IF peek[1] = "IDENTIFIER"
       THEN Goto(Append(Below, Frame("parse_assignment", "start", None, None)))
       ELSE Return(None)
    /\ UNCHANGED <<lexvars, current>>

\* parse_statement: its result is the result of the method it chooses
ParseStatement ==
    /\ At("parse_statement", "start")
    /\ Read
    /\ IF peek[1] = "KEYWORD" /\ peek[2] \in TypeKeywords
       THEN Goto(Append(Below, Frame("parse_declaration", "start", None, None)))
       ELSE IF peek[1] = "KEYWORD" /\ peek[2] = <<"i","f">>
       THEN Goto(Append(Below, Frame("parse_if", "start", None, None)))
       ELSE IF peek[1] = "IDENTIFIER"
       THEN Goto(Append(Below, Frame("parse_assignment", "start", None, None)))
       ELSE Raise("Invalid statement", peek)
    /\ UNCHANGED <<lexvars, current>>

\* parse_declaration: type_tok = self.match("KEYWORD")
DeclType ==
    /\ At("parse_declaration", "start")
    /\ match("KEYWORD", None, Goto(Continue("id_tok", peek, None)))
    /\ UNCHANGED lexvars

\* parse_declaration: id_tok = self.match("IDENTIFIER")
DeclId ==
    /\ At("parse_declaration", "id_tok")
    /\ match("IDENTIFIER", None, Goto(Continue("init", Top.a, peek)))
    /\ UNCHANGED lexvars

\* parse_declaration: the test for '=', then '=' and the call of
\* parse_expression, or ';' and the return without initializer
DeclInit ==
    /\ At("parse_declaration", "init")
    /\ IF peek[1] = "OPERATOR" /\ peek[2] = <<"=">>
       THEN match("OPERATOR", <<"=">>,
                  Goto(Call("semi", Top.a, Top.b, "parse_expression")))
       ELSE match("SIGN", <<";">>,
                  Return(<<"DECLARATION", Top.a[2], Top.b[2], None>>))
    /\ UNCHANGED lexvars

\* parse_declaration: expr is returned; ';' and the return
DeclSemi ==
    /\ At("parse_declaration", "semi")
    /\ match("SIGN", <<";">>, Return(<<"DECLARATION", Top.a[2], Top.b[2], ret>>))
    /\ UNCHANGED lexvars

\* parse_assignment: id_tok = self.match("IDENTIFIER")
AssignId ==
    /\ At("parse_assignment", "start")
    /\ match("IDENTIFIER", None, Goto(Continue("eq", peek, None)))
    /\ UNCHANGED lexvars

\* parse_assignment: '=' and the call of parse_expression
AssignEq ==
    /\ At("parse_assignment", "eq")
    /\ match("OPERATOR", <<"=">>, Goto(Call("semi", Top.a, None, "parse_expression")))
    /\ UNCHANGED lexvars

\* parse_assignment: expr is returned; ';' and the return
AssignSemi ==
    /\ At("parse_assignment", "semi")
    /\ match("SIGN", <<";">>, Return(<<"ASSIGNMENT", Top.a[2], ret>>))
    /\ UNCHANGED lexvars

\* parse_if: self.match("KEYWORD", "if")
IfKeyword ==
    /\ At("parse_if", "start")
    /\ match("KEYWORD", <<"i","f">>, Goto(Continue("lparen", None, None)))
    /\ UNCHANGED lexvars

\* parse_if: '(' and the call of parse_expression
IfLparen ==
    /\ At("parse_if", "lparen")
    /\ match("SIGN", <<"(">>, Goto(Call("rparen", None, None, "parse_expression")))
    /\ UNCHANGED lexvars

\* IfRparen with parse_assignment called for the body
IfRparen_AssignmentOnly ==
    /\ At("parse_if", "rparen")
    /\ match("SIGN", <<")">>, Goto(Call("stmt", ret, None, "parse_assignment")))
    /\ UNCHANGED lexvars

\* parse_if: condition is returned; ')' and the call of parse_statement
IfRparen ==
    /\ At("parse_if", "rparen")
    /\ match("SIGN", <<")">>, Goto(Call("stmt", ret, None, "parse_statement")))
    /\ UNCHANGED lexvars

\* parse_if: stmt is returned; the return
IfReturn ==
    /\ At("parse_if", "stmt")
    /\ Return(<<"IF", Top.a, ret>>)
    /\ UNCHANGED <<lexvars, current, maxread>>

\* The while loop of parse_expression and of parse_term with `left` computed:
\* an operator of ops and the call of operand for the right side, or the return.
BinaryLoop(left, ops, operand) ==
    /\ Read
    /\ IF peek[1] = "OPERATOR" /\ peek[2] \in ops
       THEN match("OPERATOR", None, Goto(Call("right", left, peek[2], operand)))
       ELSE Return(left) /\ UNCHANGED current

\* parse_expression: left = self.parse_term()
ExprStart ==
    /\ At("parse_expression", "start")
    /\ UNCHANGED <<lexvars, current, maxread>>
    /\ Goto(Call("left", None, None, "parse_term"))

\* parse_expression: the first term is returned; the loop
ExprLeft ==
    /\ At("parse_expression", "left")
    /\ BinaryLoop(ret, ExpressionOps, "parse_term")
    /\ UNCHANGED lexvars

\* parse_expression: right is returned, left = ("BIN_OP", op, left, right); the loop
ExprRight ==
    /\ At("parse_expression", "right")
    /\ BinaryLoop(BinOp(Top.b, Top.a, ret), ExpressionOps, "parse_term")
    /\ UNCHANGED lexvars

\* parse_term: left = self.parse_factor()
TermStart ==
    /\ At("parse_term", "start")
    /\ UNCHANGED <<lexvars, current, maxread>>
    /\ Goto(Call("left", None, None, "parse_factor"))

\* parse_term: the first factor is returned; the loop
TermLeft ==
    /\ At("parse_term", "left")
    /\ BinaryLoop(ret, TermOps, "parse_factor")
    /\ UNCHANGED lexvars

\* parse_term: right is returned, left = ("BIN_OP", op, left, right); the loop
TermRight ==
    /\ At("parse_term", "right")
    /\ BinaryLoop(BinOp(Top.b, Top.a, ret), TermOps, "parse_factor")
    /\ UNCHANGED lexvars

\* ParseFactor taking a number or an identifier out of the token list
\* instead of moving the cursor past it
ParseFactor_PopsToken ==
    /\ At("parse_factor", "start")
    /\ Read
    /\ IF peek[1] \in {"INTEGER", "IDENTIFIER"}
       THEN /\ tokens' = SubSeq(tokens, 1, current) \o SubSeq(tokens, current + 2, Len(tokens))
            /\ UNCHANGED <<code, i, line, col, starts, iters, current>>
            /\ Return(<<IF peek[1] = "INTEGER" THEN "NUMBER" ELSE "IDENTIFIER", peek[2]>>)
       ELSE /\ UNCHANGED lexvars
            /\ IF peek[1] = "SIGN" /\ peek[2] = <<"(">>
               THEN match("SIGN", <<"(">>,
                          Goto(Call("rparen", None, None, "parse_expression")))
               ELSE Raise("Invalid expression", peek)

\* parse_factor: a number, an identifier, '(' and the call of parse_expression,
\* or the raise
ParseFactor ==
    /\ At("parse_factor", "start")
    /\ Read
    /\ IF peek[1] = "INTEGER"
       THEN advance /\ Return(<<"NUMBER", peek[2]>>)
       ELSE IF peek[1] = "IDENTIFIER"
       THEN advance /\ Return(<<"IDENTIFIER", peek[2]>>)
       ELSE IF peek[1] = "SIGN" /\ peek[2] = <<"(">>
       THEN match("SIGN", <<"(">>, Goto(Call("rparen", None, None, "parse_expression")))
       ELSE Raise("Invalid expression", peek)
    /\ UNCHANGED lexvars

\* parse_factor: expr is returned; ')' and the return
FactorRparen ==
    /\ At("parse_factor", "rparen")
    /\ match("SIGN", <<")">>, Return(ret))
    /\ UNCHANGED lexvars

ParseNext ==
    \/ ProgramLoop \/ ProgramAppend \/ ParseStatement
    \/ DeclType \/ DeclId \/ DeclInit \/ DeclSemi
    \/ AssignId \/ AssignEq \/ AssignSemi
    \/ IfKeyword \/ IfLparen \/ IfRparen \/ IfReturn
    \/ ExprStart \/ ExprLeft \/ ExprRight
    \/ TermStart \/ TermLeft \/ TermRight
    \/ ParseFactor \/ FactorRparen

(***************************************************************************)
(* run_compiler on a source text.  The inputs: every text over Chars of at *)
(* most MaxLen characters, and the programs of Examples.                   *)
(***************************************************************************)
Chars == {"i", "f", "_", "1", "=", "<", ";", " ", "\n", "@", HalfChar}

RECURSIVE Texts(_, _)
Texts(alphabet, n) ==
    IF n = 0 THEN {<<>>}
    ELSE LET shorter == Texts(alphabet, n - 1)
         IN  shorter \cup {Append(t, c) : t \in shorter, c \in alphabet}

ExPrecedence == <<"i","n","t"," ","x"," ","="," ","1"," ","+"," ","2"," ","*"," ","3",";">>
ExFailure == <<"i","n","t"," ","x"," ","5",";">>
ExIf == <<"i","f"," ","(","x"," ","<"," ","1",")"," ","y"," ","="," ","2",";">>
ExGroup == <<"d","o","u","b","l","e"," ","d",";","\n","d"," ","="," ","(","d"," ","/"," ","2",")",";">>
ExFloat == <<"f","l","o","a","t">>
ExElse == <<"e","l","s","e">>
ExInteger == <<"i","n","t","e","g","e","r">>
ExIffy == <<"i","f","f","y">>
ExIntUnderscore == <<"i","n","t","_">>
ExTabs == <<"\t","x","\t","=","=","\n","\t","1">>
ExNested == <<"i","f","(","x",")","i","f","(","y","=","=","2",")","f","l","o","a","t"," ","z","=","x","-","1",";">>
ExIfThen == <<"i","f","(","x",")","y","=","1",";","i","n","t"," ","z",";">>
ExIfDecl == <<"i","f","(","(","1",")",")","i","n","t"," ","y",";","i","f","(","y",")","x","=","1",";">>
ExIfIf == <<"i","f","(","x",")","i","f","(","y",")","z","=","1",";","x","=","2",";">>
ExIfBare == <<"x","=","1",";","i","f","(","x",")">>

Examples == {ExPrecedence, ExFailure, ExIf, ExGroup, ExFloat, ExElse, ExInteger,
             ExIffy, ExIntUnderscore, ExTabs, ExNested, ExIfThen, ExIfDecl, ExIfIf,
             ExIfBare}

Inputs == Texts(Chars, MaxLen) \cup Examples

Init ==
    /\ pc = "lex"
    /\ code \in Inputs
    /\ i = LexStart.i
    /\ line = LexStart.line
    /\ col = LexStart.col
    /\ tokens = LexStart.tokens
    /\ starts = <<>>
    /\ iters = 0
    /\ current = 0
    /\ stack = <<>>
    /\ ret = None
    /\ result = None
    /\ maxread = -1
    /\ steps = 0
    /\ marks = <<>>

Next == LexNext \/ RunParser \/ ParseNext

Spec == Init /\ [][Next]_vars

(***************************************************************************)
(* Parser(tokens).parse_program() on a token list given by any caller.     *)
(* The inputs, each closed by one EOF token:                               *)
(*   - every sequence of at most MaxToks tokens of ShortTokens;            *)
(*   - the statements x = a1 op1 a2 ... opn a(n+1) ; without parentheses,  *)
(*     for every choice of at most MaxOps operators of the grammar;        *)
(*   - the token lists the lexer returns for Programs, and each of them    *)
(*     with one token replaced by a token of AllTokens (an EOF token among *)
(*     them, so that tokens may follow an EOF token) or removed.           *)
(***************************************************************************)
MaxToks == 4
MaxOps == 3

ShortTokens ==
    { <<"KEYWORD", <<"i","n","t">>>>, <<"IDENTIFIER", <<"x">>>>,
      <<"INTEGER", <<"1">>>>, <<"OPERATOR", <<"=">>>>, <<"OPERATOR", <<"+">>>>,
      <<"SIGN", <<"(">>>>, <<"SIGN", <<")">>>>, <<"SIGN", <<";">>>> }

AllTokens ==
    ShortTokens \cup
    { <<"KEYWORD", <<"i","f">>>>, <<"OPERATOR", <<"*">>>>,
      <<"KEYWORD", <<"e","l","s","e">>>>, <<"KEYWORD", <<"f","l","o","a","t">>>>,
      <<"IDENTIFIER", <<"i","f">>>>, <<"INTEGER", <<"2">>>>,
      <<"OPERATOR", <<"-">>>>, <<"OPERATOR", <<"/">>>>, <<"OPERATOR", <<"<">>>>,
      <<"OPERATOR", <<">">>>>, <<"OPERATOR", <<"=","=">>>>, <<"OPERATOR", <<"!","=">>>>,
      <<"OPERATOR", <<"<","=">>>>, <<"OPERATOR", <<">","=">>>>, <<"OPERATOR", <<"%">>>>,
      <<"OPERATOR", <<"!">>>>, <<"SIGN", <<"{">>>>, <<"SIGN", <<"}">>>>,
      <<"UNKNOWN", <<"@">>>>, <<"EOF", <<>>>> }

\* The tokens of a sequence of <<type, text>> pairs, placed one column apart on
\* line 1, and the EOF token after them.
Placed(pairs) ==
    [k \in 1..(Len(pairs) + 1) |->
        IF k <= Len(pairs) THEN <<pairs[k][1], pairs[k][2], 1, k>>
        ELSE <<"EOF", <<>>, 1, k>>]

\* the operands a1, a2, ... of the statements without parentheses
OperandTexts == <<"1", "x", "2", "y", "3", "z", "5">>
Operand(k) ==
    <<IF k % 2 = 1 THEN "INTEGER" ELSE "IDENTIFIER", <<OperandTexts[k]>>>>

GrammarOps == { <<"+">>, <<"-">>, <<"<">>, <<">">>, <<"=","=">>, <<"*">>, <<"/">> }

\* x = a1 ops[1] a2 ... ops[n] a(n+1) ;
FlatStatement(ops) ==
    <<<<"IDENTIFIER", <<"x">>>>, <<"OPERATOR", <<"=">>>>, Operand(1)>>
    \o [k \in 1..(2 * Len(ops)) |->
           IF k % 2 = 1 THEN <<"OPERATOR", ops[(k + 1) \div 2]>>
           ELSE Operand(k \div 2 + 1)]
    \o <<<<"SIGN", <<";">>>>>>

FlatInputs == {Placed(FlatStatement(ops)) : ops \in Texts(GrammarOps, MaxOps)}


Programs == {ExPrecedence, ExIf, ExGroup, ExNested, ExIfThen, ExIfDecl, ExIfIf, ExIfBare}

\* toks with its k-th token given the type and text of pair
Replaced(toks, k, pair) ==
    [toks EXCEPT ![k] = <<pair[1], pair[2], toks[k][3], toks[k][4]>>]

\* toks without its k-th token
Removed(toks, k) == SubSeq(toks, 1, k - 1) \o SubSeq(toks, k + 1, Len(toks))

NearPrograms ==
    UNION { LET toks == lexical_analyzer_from_text(p)
            IN  {toks}
                \cup {Replaced(toks, k, w) : k \in 1..(Len(toks) - 1), w \in AllTokens}
                \cup {Removed(toks, k) : k \in 1..(Len(toks) - 1)}
          : p \in Programs }

TokenInputs ==
    {Placed(pairs) : pairs \in Texts(ShortTokens, MaxToks)}
        \cup FlatInputs \cup NearPrograms

ParserInit ==
    /\ pc = "parse"
    /\ code = <<>>
    /\ i = LexStart.i
    /\ line = LexStart.line
    /\ col = LexStart.col
    /\ tokens \in TokenInputs
    /\ starts = <<>>
    /\ iters = 0
    /\ current = 0
    /\ stack = NewParser
    /\ ret = None
    /\ result = None
    /\ maxread = -1
    /\ steps = 0
    /\ marks = <<0>>

ParserSpec == ParserInit /\ [][ParseNext]_vars

(***************************************************************************)
(* Properties of the lexer.                                                *)
(***************************************************************************)
Lexed == pc # "lex"

Type(tok) == tok[1]
Text(tok) == tok[2]
LineOf(tok) == tok[3]
ColumnOf(tok) == tok[4]

\* the indices of the tokens before the EOF token
Proper == 1..(Len(tokens) - 1)

\* the character at which the k-th token began
FirstChar(k) == code[starts[k] + 1]

EOFTokens(toks) == {k \in 1..Len(toks) : Type(toks[k]) = "EOF"}

OnlyBlanksAndUnknown(src) == \A k \in 1..Len(src) : src[k] \in {" ", "\n", "\t", "@"}

\* C1: for every input the lexer comes to its end without raising: every
\* iteration of its loop takes at least one character and none lies beyond the
\* input, so the loop runs at most Len(code) times; the sequence it returns is
\* non-empty, holds exactly one EOF token, and that token is its last.
C1_TokenizerTotal ==
    /\ iters <= i
    /\ i <= Len(code)
    /\ Lexed => /\ i = Len(code)
                /\ tokens # <<>>
                /\ EOFTokens(tokens) = {Len(tokens)}

C1_Witness ==
    /\ pc = "lexed"
    /\ Len(code) >= 2
    /\ OnlyBlanksAndUnknown(code)
    /\ EOFTokens(tokens) = {Len(tokens)}

\* the texts of toks, concatenated in order
RECURSIVE JoinTexts(_)
JoinTexts(toks) ==
    IF toks = <<>> THEN <<>> ELSE Text(Head(toks)) \o JoinTexts(Tail(toks))

WithoutWhitespace(src) == SelectSeq(src, LAMBDA ch : ~isspace(ch))

\* C3: the texts of the returned tokens, concatenated in order, are the input
\* with every whitespace character removed.
C3_TextsCoverInput == Lexed => JoinTexts(tokens) = WithoutWhitespace(code)

C3_Witness ==
    /\ pc = "lexed"
    /\ Len(tokens) >= 3
    /\ \E k \in 1..Len(code) : isspace(code[k])
    /\ JoinTexts(tokens) = WithoutWhitespace(code)
    /\ JoinTexts(tokens) # code

\* the operator characters and the two-character operators of the claim
C7_OperatorChars == {"+", "-", "*", "/", "%", "=", "<", ">", "!"}
C7_TwoCharOperators == { <<"=","=">>, <<"!","=">>, <<"<","=">>, <<">","=">> }

\* C7: a token begun at an operator character c is one OPERATOR token; its
\* text is c and the next character d when cd is a two-character operator, and
\* then no token begins at d; otherwise its text is c.  "==" is one token.
C7_MaximalMunch ==
    Lexed =>
        /\ \A k \in Proper :
              FirstChar(k) \in C7_OperatorChars =>
                  LET p == starts[k]
                      two == IF p + 2 <= Len(code)
                             THEN <<code[p + 1], code[p + 2]>> ELSE <<>>
                  IN  /\ Type(tokens[k]) = "OPERATOR"
                      /\ IF two \in C7_TwoCharOperators
                         THEN Text(tokens[k]) = two /\ starts[k + 1] >= p + 2
                         ELSE Text(tokens[k]) = <<code[p + 1]>> /\ starts[k + 1] >= p + 1
        /\ code = <<"=", "=">> =>
              tokens = << <<"OPERATOR", <<"=", "=">>, 1, 1>>, <<"EOF", <<>>, 1, 3>> >>

C7_Witness ==
    /\ pc = "lexed"
    /\ code = <<"=", "=", "=">>
    /\ Len(tokens) = 3
    /\ Text(tokens[1]) = <<"=", "=">>
    /\ Text(tokens[2]) = <<"=">>

\* the keywords of the claim
C8_Keywords == { <<"i","n","t">>, <<"f","l","o","a","t">>, <<"d","o","u","b","l","e">>,
                 <<"i","f">>, <<"e","l","s","e">> }

C8_WordChar(ch) == isalnum(ch) \/ ch = "_"

\* the end (exclusive, 0-based) of the maximal run of word characters from p
RECURSIVE C8_RunEnd(_, _)
C8_RunEnd(src, p) ==
    IF p < Len(src) /\ C8_WordChar(src[p + 1]) THEN C8_RunEnd(src, p + 1) ELSE p

C8_Single(type, text) == << <<type, text, 1, 1>>, <<"EOF", <<>>, 1, Len(text) + 1>> >>

\* C8: a token begun at a letter or underscore is the maximal run of
\* alphanumeric or underscore characters; it is a KEYWORD exactly when the
\* whole run is a keyword and an IDENTIFIER otherwise.
C8_KeywordOrIdentifier ==
    Lexed =>
        /\ \A k \in Proper :
              (isalpha(FirstChar(k)) \/ FirstChar(k) = "_") =>
                  LET run == SubSeq(code, starts[k] + 1, C8_RunEnd(code, starts[k]))
                  IN  /\ Text(tokens[k]) = run
                      /\ starts[k + 1] >= C8_RunEnd(code, starts[k])
                      /\ Type(tokens[k]) =
                            IF run \in C8_Keywords THEN "KEYWORD" ELSE "IDENTIFIER"
        /\ code = ExInteger => tokens = C8_Single("IDENTIFIER", ExInteger)
        /\ code = ExIffy => tokens = C8_Single("IDENTIFIER", ExIffy)
        /\ code = ExIntUnderscore => tokens = C8_Single("IDENTIFIER", ExIntUnderscore)
        /\ code = ExFloat => tokens = C8_Single("KEYWORD", ExFloat)

C8_Witness ==
    /\ pc = "lexed"
    /\ code = ExIntUnderscore
    /\ Type(tokens[1]) = "IDENTIFIER"
    /\ Len(tokens) = 2

C9_NotAfter(t, u) ==
    \/ LineOf(t) < LineOf(u)
    \/ LineOf(t) = LineOf(u) /\ ColumnOf(t) <= ColumnOf(u)

\* C9: positions do not decrease along the returned sequence, the EOF token
\* included; a token is on a later line than its predecessor only if a newline
\* lies between their beginnings; a token begun right after a newline has
\* column 1.
C9_PositionsMonotonic ==
    Lexed =>
        /\ \A k \in 2..Len(tokens) :
              /\ C9_NotAfter(tokens[k - 1], tokens[k])
              /\ LineOf(tokens[k]) > LineOf(tokens[k - 1]) =>
                    \E q \in (starts[k - 1] + 1)..starts[k] : code[q] = "\n"
        /\ \A k \in 1..Len(tokens) :
              (starts[k] > 0 /\ code[starts[k]] = "\n") => ColumnOf(tokens[k]) = 1

C9_Witness ==
    /\ pc = "lexed"
    /\ \E k \in 2..Len(tokens) :
          /\ ColumnOf(tokens[k - 1]) > 1
          /\ LineOf(tokens[k]) > LineOf(tokens[k - 1])
          /\ ColumnOf(tokens[k]) = 1
          /\ code[starts[k]] = "\n"

Kinds(toks) == [k \in 1..Len(toks) |-> Type(toks[k])]

\* the kinds of the tokens of the reconstruction of the returned tokens
RelexedKinds == Kinds(lexical_analyzer_from_text(JoinTexts(tokens)))

\* C10 as claimed: tokenizing the concatenated texts gives the kinds of the
\* tokens of the input, for every input.
C10_Original == Lexed => RelexedKinds = Kinds(tokens)

\* whitespace lies between the k-th token and the next, and without it the
\* next token's first character would have been taken into the k-th token
C10_KeptApart(k) ==
    /\ starts[k] + Len(Text(tokens[k])) < starts[k + 1]
    /\ \/ /\ Type(tokens[k]) \in {"KEYWORD", "IDENTIFIER"}
          /\ isalnum(FirstChar(k + 1)) \/ FirstChar(k + 1) = "_"
       \/ /\ Type(tokens[k]) = "INTEGER"
          /\ isdigit(FirstChar(k + 1))
       \/ /\ Type(tokens[k]) = "OPERATOR"
          /\ Len(Text(tokens[k])) = 1
          /\ Text(tokens[k]) \o <<FirstChar(k + 1)>> \in C7_TwoCharOperators

C10_NothingKeptApart == \A k \in 1..(Len(tokens) - 2) : ~C10_KeptApart(k)

\* C10 as amended: tokenizing the concatenated texts gives the kinds of the
\* tokens of the input, provided no whitespace of the input separates a keyword
\* or identifier from an alphanumeric or underscore character, an integer from
\* a digit, or a one-character operator from a character that completes a
\* two-character operator.
C10_RelexSameKinds == (Lexed /\ C10_NothingKeptApart) => RelexedKinds = Kinds(tokens)

C10_Witness ==
    /\ pc = "lexed"
    /\ \E k \in 1..(Len(tokens) - 2) : starts[k] + Len(Text(tokens[k])) < starts[k + 1]
    /\ C10_NothingKeptApart
    /\ RelexedKinds = Kinds(tokens)

(***************************************************************************)
(* Properties of the parser.                                               *)
(***************************************************************************)
Finished == pc \in {"done", "error"}

\* the tokens before the first EOF token
FirstEOF == CHOOSE k \in 1..Len(tokens) :
                /\ Type(tokens[k]) = "EOF"
                /\ \A j \in 1..(k - 1) : Type(tokens[j]) # "EOF"
Body == SubSeq(tokens, 1, FirstEOF - 1)

Is(tok, type, text) == Type(tok) = type /\ Text(tok) = text

\* The grammar of the claim, as the set of token sequences it derives.
C2_TypeKeywords == { <<"i","n","t">>, <<"f","l","o","a","t">>, <<"d","o","u","b","l","e">> }
C2_ExpressionOperators == { <<"+">>, <<"-">>, <<"<">>, <<">">>, <<"=","=">> }
C2_TermOperators == { <<"*">>, <<"/">> }

C2_Parts(s, k) == <<SubSeq(s, 1, k - 1), SubSeq(s, k + 1, Len(s))>>

RECURSIVE C2_Expression(_), C2_Term(_), C2_Factor(_), C2_Statement(_), C2_Program(_)

C2_Factor(s) ==
    \/ Len(s) = 1 /\ Type(s[1]) \in {"INTEGER", "IDENTIFIER"}
    \/ /\ Len(s) >= 3
       /\ Is(s[1], "SIGN", <<"(">>)
       /\ Is(s[Len(s)], "SIGN", <<")">>)
       /\ C2_Expression(SubSeq(s, 2, Len(s) - 1))

C2_Term(s) ==
    \/ C2_Factor(s)
    \/ \E k \in 2..(Len(s) - 1) :
          /\ Type(s[k]) = "OPERATOR" /\ Text(s[k]) \in C2_TermOperators
          /\ C2_Factor(C2_Parts(s, k)[2])
          /\ C2_Term(C2_Parts(s, k)[1])

C2_Expression(s) ==
    \/ C2_Term(s)
    \/ \E k \in 2..(Len(s) - 1) :
          /\ Type(s[k]) = "OPERATOR" /\ Text(s[k]) \in C2_ExpressionOperators
          /\ C2_Term(C2_Parts(s, k)[2])
          /\ C2_Expression(C2_Parts(s, k)[1])

C2_Declaration(s) ==
    /\ Len(s) >= 3
    /\ Type(s[1]) = "KEYWORD" /\ Text(s[1]) \in C2_TypeKeywords
    /\ Type(s[2]) = "IDENTIFIER"
    /\ Is(s[Len(s)], "SIGN", <<";">>)
    /\ \/ Len(s) = 3
       \/ /\ Len(s) >= 5
          /\ Is(s[3], "OPERATOR", <<"=">>)
          /\ C2_Expression(SubSeq(s, 4, Len(s) - 1))

C2_Assignment(s) ==
    /\ Len(s) >= 4
    /\ Type(s[1]) = "IDENTIFIER"
    /\ Is(s[2], "OPERATOR", <<"=">>)
    /\ Is(s[Len(s)], "SIGN", <<";">>)
    /\ C2_Expression(SubSeq(s, 3, Len(s) - 1))

C2_IfStatement(s) ==
    /\ Len(s) >= 5
    /\ Is(s[1], "KEYWORD", <<"i","f">>)
    /\ Is(s[2], "SIGN", <<"(">>)
    /\ \E k \in 4..(Len(s) - 1) :
          /\ Is(s[k], "SIGN", <<")">>)
          /\ C2_Expression(SubSeq(s, 3, k - 1))
          /\ C2_Statement(SubSeq(s, k + 1, Len(s)))

C2_Statement(s) == C2_Declaration(s) \/ C2_IfStatement(s) \/ C2_Assignment(s)

C2_Program(s) ==
    \/ s = <<>>
    \/ \E k \in 1..Len(s) :
          /\ C2_Statement(SubSeq(s, 1, k))
          /\ C2_Program(SubSeq(s, k + 1, Len(s)))

\* C2: parse_program returns a PROGRAM node when the tokens before EOF (the
\* first EOF token, should the sequence hold several) are derivable from the
\* grammar, and raises SyntaxError when they are not.
C2_AcceptsTheGrammar ==
    /\ pc = "done" => (result[1] = "PROGRAM" /\ C2_Program(Body))
    /\ pc = "error" => (result[1] = "SyntaxError" /\ ~C2_Program(Body))

C2_Witness ==
    /\ pc = "done"
    /\ Len(result[2]) >= 2
    /\ \E k \in 1..Len(Body) : Is(Body[k], "SIGN", <<"(">>)
    /\ C2_Program(Body)

\* The input is x = a1 op1 a2 ... opn a(n+1) ; with n operators, no parentheses.
Flat == tokens \in FlatInputs
FlatOps == [j \in 1..((Len(tokens) - 5) \div 2) |-> Text(tokens[2 + 2 * j])]

\* the k-th operand as the parser returns it
Leaf(k) == <<IF k % 2 = 1 THEN "NUMBER" ELSE "IDENTIFIER", <<OperandTexts[k]>>>>

\* the expression tree of a parse that returned one assignment
Tree == result[2][1][3]

IsBinOp(t) == t[1] = "BIN_OP"
LowTier == { <<"+">>, <<"-">>, <<"<">>, <<">">>, <<"=","=">> }
HighTier == { <<"*">>, <<"/">> }

\* the operands and operators of a tree, left to right
RECURSIVE InOrder(_)
InOrder(t) ==
    IF IsBinOp(t) THEN InOrder(t[3]) \o <<t[2]>> \o InOrder(t[4]) ELSE <<t>>

\* the operands and operators of the flat input, left to right
FlatOrder ==
    [k \in 1..(2 * Len(FlatOps) + 1) |->
        IF k % 2 = 1 THEN Leaf((k + 1) \div 2) ELSE FlatOps[k \div 2]]

\* no '*' or '/' of the tree has an operator of the lower tier below it
RECURSIVE C4_TightBelow(_, _)
C4_TightBelow(t, underHigh) ==
    IsBinOp(t) =>
        /\ underHigh => t[2] \in HighTier
        /\ C4_TightBelow(t[3], underHigh \/ t[2] \in HighTier)
        /\ C4_TightBelow(t[4], underHigh \/ t[2] \in HighTier)

C4_ExampleTree ==
    <<"PROGRAM",
      << <<"DECLARATION", <<"i","n","t">>, <<"x">>,
           <<"BIN_OP", <<"+">>, <<"NUMBER", <<"1">>>>,
              <<"BIN_OP", <<"*">>, <<"NUMBER", <<"2">>>>, <<"NUMBER", <<"3">>>>>>>>>> >>>>

\* C4: for an expression without parentheses the parse succeeds with a tree
\* that keeps the operands and operators in their order and in which no '*'
\* or '/' has a '+', '-', '<', '>' or '==' below it, so every maximal run of
\* factors joined by '*' and '/' is one operand subtree of the lower tier;
\* "int x = 1 + 2 * 3;" gives the tree of the claim.
C4_MultiplicationBindsTighter ==
    Finished =>
        /\ Flat => /\ pc = "done"
                   /\ Len(result[2]) = 1
                   /\ result[2][1][1] = "ASSIGNMENT"
                   /\ InOrder(Tree) = FlatOrder
                   /\ C4_TightBelow(Tree, FALSE)
        /\ tokens = lexical_analyzer_from_text(ExPrecedence) => result = C4_ExampleTree

C4_Witness ==
    /\ pc = "done"
    /\ Flat
    /\ FlatOps = << <<"*">>, <<"-">>, <<"/">> >>
    /\ Tree = <<"BIN_OP", <<"-">>, <<"BIN_OP", <<"*">>, Leaf(1), Leaf(2)>>,
                                   <<"BIN_OP", <<"/">>, Leaf(3), Leaf(4)>>>>

SameTier(op1, op2) == (op1 \in LowTier) = (op2 \in LowTier)

\* no operator of the tree has an operator of its own tier as its right operand
RECURSIVE C5_LeftLeaning(_)
C5_LeftLeaning(t) ==
    IsBinOp(t) =>
        /\ IsBinOp(t[4]) => ~SameTier(t[2], t[4][2])
        /\ C5_LeftLeaning(t[3])
        /\ C5_LeftLeaning(t[4])

\* C5: within a tier the parser is left-associative: a op1 b op2 c with op1
\* and op2 of one tier gives BIN_OP(op2, BIN_OP(op1, a, b), c), the relational
\* operators being of the tier of '+' and '-'; and in no tree of an expression
\* without parentheses is an operator the right operand of one of its tier.
C5_LeftAssociative ==
    (Finished /\ Flat) =>
        /\ pc = "done"
        /\ C5_LeftLeaning(Tree)
        /\ (Len(FlatOps) = 2 /\ SameTier(FlatOps[1], FlatOps[2])) =>
              Tree = <<"BIN_OP", FlatOps[2],
                       <<"BIN_OP", FlatOps[1], Leaf(1), Leaf(2)>>, Leaf(3)>>

C5_Witness ==
    /\ pc = "done"
    /\ Flat
    /\ FlatOps = << <<"<">>, <<"+">> >>
    /\ Tree = <<"BIN_OP", <<"+">>, <<"BIN_OP", <<"<">>, Leaf(1), Leaf(2)>>, Leaf(3)>>

\* C6: a failed parse raises a SyntaxError that holds the token at the cursor;
\* that token is the last one peek has read and none after it has been read;
\* "int x 5;" fails at the INTEGER token "5" of line 1, column 7, with the two
\* tokens before it consumed.
C6_ErrorNamesCurrentToken ==
    /\ pc = "error" =>
          /\ current < Len(tokens)
          /\ maxread = current
          /\ Len(result) = 3
          /\ result[1] = "SyntaxError"
          /\ result[3] = tokens[current + 1]
    /\ pc = "parse" => maxread <= current
    /\ (Finished /\ code = ExFailure) =>
          /\ pc = "error"
          /\ current = 2
          /\ result[3] = <<"INTEGER", <<"5">>, 1, 7>>

C6_Witness ==
    /\ pc = "error"
    /\ code = ExFailure
    /\ current = 2
    /\ result = <<"SyntaxError", "Unexpected token", <<"INTEGER", <<"5">>, 1, 7>>>>

\* the node kind of the statement that the token sequence s is
C11_Kind(s) ==
    IF Type(s[1]) = "IDENTIFIER" THEN "ASSIGNMENT"
    ELSE IF Text(s[1]) = <<"i","f">> THEN "IF"
    ELSE "DECLARATION"

\* the operands and operators of the expression s as a tree holds them, the
\* parentheses left out
C11_Flatten(s) ==
    LET kept == SelectSeq(s, LAMBDA tok : Type(tok) # "SIGN")
    IN  [k \in 1..Len(kept) |->
            IF Type(kept[k]) = "INTEGER" THEN <<"NUMBER", Text(kept[k])>>
            ELSE IF Type(kept[k]) = "IDENTIFIER" THEN <<"IDENTIFIER", Text(kept[k])>>
            ELSE Text(kept[k])]

\* every IF node of a statement has one statement node as its body
RECURSIVE C11_OneStatementBodies(_)
C11_OneStatementBodies(node) ==
    node[1] = "IF" =>
        /\ Len(node) = 3
        /\ node[3][1] \in {"DECLARATION", "ASSIGNMENT", "IF"}
        /\ C11_OneStatementBodies(node[3])

C11_ExampleTree ==
    <<"PROGRAM",
      << <<"IF", <<"BIN_OP", <<"<">>, <<"IDENTIFIER", <<"x">>>>, <<"NUMBER", <<"1">>>>>>,
                 <<"ASSIGNMENT", <<"y">>, <<"NUMBER", <<"2">>>>>>>> >>>>

\* The tokens before EOF are 'if' '(' E ')' S1 S2, the ')' being the k-th token
\* and S1 ending at the m-th.
C11_IfThenNext(k, m) ==
    /\ Is(Body[1], "KEYWORD", <<"i","f">>)
    /\ Is(Body[2], "SIGN", <<"(">>)
    /\ Is(Body[k], "SIGN", <<")">>)
    /\ C2_Expression(SubSeq(Body, 3, k - 1))
    /\ C2_Statement(SubSeq(Body, k + 1, m))
    /\ C2_Statement(SubSeq(Body, m + 1, Len(Body)))

\* C11: an if statement takes one statement as its body: 'if' '(' E ')' S1 S2
\* parses to a PROGRAM of two statements, IF(E, S1) and then S2, whatever kind
\* of statement S1 is; the body of every IF node is one statement node; and
\* "if (x < 1) y = 2;" gives the tree of the claim.
C11_IfTakesOneStatement ==
    Finished =>
        /\ \A k \in 4..Len(Body) : \A m \in (k + 1)..(Len(Body) - 1) :
              C11_IfThenNext(k, m) =>
                  /\ pc = "done"
                  /\ Len(result[2]) = 2
                  /\ result[2][1][1] = "IF"
                  /\ InOrder(result[2][1][2]) = C11_Flatten(SubSeq(Body, 3, k - 1))
                  /\ result[2][1][3][1] = C11_Kind(SubSeq(Body, k + 1, m))
                  /\ result[2][2][1] = C11_Kind(SubSeq(Body, m + 1, Len(Body)))
        /\ pc = "done" =>
              \A n \in 1..Len(result[2]) : C11_OneStatementBodies(result[2][n])
        /\ tokens = lexical_analyzer_from_text(ExIf) => result = C11_ExampleTree

C11_Witness ==
    /\ pc = "done"
    /\ tokens = lexical_analyzer_from_text(ExIfIf)
    /\ C11_IfThenNext(4, 12)
    /\ Len(result[2]) = 2
    /\ result[2][1][3][1] = "IF"
    /\ result[2][2] = <<"ASSIGNMENT", <<"x">>, <<"NUMBER", <<"2">>>>>>

\* the tokens the lexer makes and no rule of the parser takes
C12_Gap(tok) ==
    \/ Type(tok) = "OPERATOR" /\ Text(tok) \in { <<"!","=">>, <<"<","=">>, <<">","=">>, <<"%">> }
    \/ Is(tok, "KEYWORD", <<"e","l","s","e">>)
    \/ Type(tok) = "SIGN" /\ Text(tok) \in { <<"{">>, <<"}">> }

C12_HasGap == \E k \in 1..Len(Body) : C12_Gap(Body[k])

\* C12: a parse of tokens that hold '!=', '<=', '>=', '%', 'else', '{' or '}'
\* before EOF (the first EOF token, should the sequence hold several) ends
\* with a SyntaxError, and no parse ever consumes such a token.
C12_GrammarGapsFail ==
    /\ (Finished /\ C12_HasGap) => (pc = "error" /\ result[1] = "SyntaxError")
    /\ \A k \in 1..current : ~C12_Gap(tokens[k])

C12_Witness ==
    /\ pc = "error"
    /\ current >= 6
    /\ Is(tokens[current + 1], "OPERATOR", <<"%">>)
    /\ Type(tokens[current]) = "INTEGER"
    /\ result[3] = tokens[current + 1]

\* C13: a step of the parser leaves the cursor where it is or moves it forward
\* by one, so no token is consumed twice; and the only token a step reads is
\* the one at the cursor: no token past the cursor has been read before the
\* step, and the step reads none but the token at the cursor.
C13_CursorStepsForward ==
    [][/\ current' \in {current, current + 1}
       /\ maxread <= current
       /\ maxread' \in {maxread, current}]_vars

C13_Witness ==
    /\ pc = "done"
    /\ current >= 12
    /\ current = Len(tokens) - 1
    /\ maxread = current

\* the newline characters among the first p characters of src
C14_Newlines(src, p) == {q \in 1..p : src[q] = "\n"}

\* the place of the last newline among the first p characters of src, 0 if none
C14_LastNewline(src, p) ==
    IF C14_Newlines(src, p) = {} THEN 0
    ELSE CHOOSE q \in C14_Newlines(src, p) : \A r \in C14_Newlines(src, p) : r <= q

\* C14: the line of a token other than EOF is 1 plus the number of newlines
\* before its first character, and its column is 1 plus the number of
\* characters between the last of these newlines (or the start of the input)
\* and its first character, whitespace and tabs counting one column each.
C14_ExactPositions ==
    Lexed =>
        \A k \in Proper :
            /\ LineOf(tokens[k]) = 1 + Cardinality(C14_Newlines(code, starts[k]))
            /\ ColumnOf(tokens[k]) = 1 + starts[k] - C14_LastNewline(code, starts[k])

C14_Witness ==
    /\ pc = "lexed"
    /\ code = ExTabs
    /\ tokens[2] = <<"OPERATOR", <<"=", "=">>, 1, 4>>
    /\ tokens[3] = <<"INTEGER", <<"1">>, 2, 2>>

\* the method the claim has parse_statement choose for a current token,
\* "raise" where it has it raise
C15_Rule(tok) ==
    IF Type(tok) = "KEYWORD"
       /\ Text(tok) \in { <<"i","n","t">>, <<"f","l","o","a","t">>, <<"d","o","u","b","l","e">> }
    THEN "parse_declaration"
    ELSE IF Is(tok, "KEYWORD", <<"i","f">>) THEN "parse_if"
    ELSE IF Type(tok) = "IDENTIFIER" THEN "parse_assignment"
    ELSE "raise"

\* C15: a step of parse_statement leaves the cursor where it is and depends on
\* the token at the cursor alone: it goes on in parse_declaration for a
\* KEYWORD int, float or double, in parse_if for KEYWORD if, in
\* parse_assignment for an IDENTIFIER, and for any other token it raises a
\* SyntaxError that names that token.
C15_StatementDispatch ==
    [][At("parse_statement", "start") =>
          /\ current' = current
          /\ IF C15_Rule(tokens[current + 1]) # "raise"
             THEN /\ pc' = "parse"
                  /\ Len(stack') = Len(stack)
                  /\ stack'[Len(stack')].proc = C15_Rule(tokens[current + 1])
                  /\ stack'[Len(stack')].at = "start"
             ELSE /\ pc' = "error"
                  /\ result' = <<"SyntaxError", "Invalid statement", tokens[current + 1]>>]_vars

C15_Witness ==
    /\ pc = "error"
    /\ current >= 8
    /\ current = Len(tokens) - 1
    /\ Type(tokens[current]) = "SIGN"
    /\ result = <<"SyntaxError", "Invalid statement", tokens[Len(tokens)]>>

\* the methods parse_statement hands over to
C16_StatementMethods == {"parse_declaration", "parse_assignment", "parse_if"}

\* the running method returns to its caller in this step
C16_Returns == pc = "parse" /\ pc' # "error" /\ Len(stack') < Len(stack)

\* a loop of parse_expression or parse_term begins an iteration in this step
C16_Iterates ==
    /\ \/ At("parse_expression", "left") \/ At("parse_expression", "right")
       \/ At("parse_term", "left") \/ At("parse_term", "right")
    /\ pc' = "parse"
    /\ Len(stack') > Len(stack)

\* C16: parse_program terminates: a call of parse_statement that returns has
\* moved the cursor forward, an iteration of the loop of parse_expression or
\* parse_term moves it forward, the cursor never reaches the number of
\* tokens, the steps of a parse are at most five for each token, and a parse
\* that has not ended with a PROGRAM or a SyntaxError can take a step.
C16_ParserTerminates ==
    /\ [][/\ (C16_Returns /\ Top.proc \in C16_StatementMethods) =>
                current' > marks[Len(stack)]
          /\ C16_Iterates => current' = current + 1
          /\ current' < Len(tokens)
          /\ steps' <= 5 * Len(tokens)]_vars
    /\ [](pc = "parse" => ENABLED ParseNext)
    /\ [](pc = "done" => result[1] = "PROGRAM")
    /\ [](pc = "error" => result[1] = "SyntaxError")

C16_Witness ==
    /\ pc = "done"
    /\ Len(result[2]) >= 2
    /\ current = Len(tokens) - 1
    /\ steps >= 2 * Len(tokens)
    /\ tokens = lexical_analyzer_from_text(ExIfIf)

(***************************************************************************)
(* Further properties of the lexer.                                        *)
(***************************************************************************)
\* a character outside the letter/underscore, digit, operator, sign and
\* whitespace classes of the claim
C17_Unrecognized(ch) ==
    ~(\/ isalpha(ch) \/ ch = "_"
      \/ isdigit(ch)
      \/ ch \in C7_OperatorChars
      \/ ch \in {";", "(", ")", "{", "}"}
      \/ isspace(ch))

C17_SingleCharacter ==
    \A k \in Proper : Type(tokens[k]) \in {"SIGN", "UNKNOWN"} => Len(Text(tokens[k])) = 1

\* the p-th character of the input is its own UNKNOWN token
C17_OwnUnknown(p) ==
    \E k \in Proper : /\ starts[k] = p - 1
                      /\ Type(tokens[k]) = "UNKNOWN"
                      /\ Text(tokens[k]) = <<code[p]>>

\* C17 as claimed: every SIGN and UNKNOWN token is one character long, and
\* every unrecognized character of the input is its own UNKNOWN token.
C17_Original ==
    Lexed => /\ C17_SingleCharacter
             /\ \A p \in 1..Len(code) : C17_Unrecognized(code[p]) => C17_OwnUnknown(p)

\* the p-th character of src lies in a run of alphanumeric or underscore
\* characters that a letter or an underscore begins
RECURSIVE C17_InWord(_, _)
C17_InWord(src, p) ==
    \/ isalpha(src[p]) \/ src[p] = "_"
    \/ isalnum(src[p]) /\ p > 1 /\ C17_InWord(src, p - 1)

\* the p-th character of the input lies inside a KEYWORD or IDENTIFIER token
\* begun before it
C17_InsideWordToken(p) ==
    \E k \in Proper : /\ Type(tokens[k]) \in {"KEYWORD", "IDENTIFIER"}
                      /\ starts[k] < p - 1
                      /\ p <= starts[k] + Len(Text(tokens[k]))
                      /\ Text(tokens[k])[p - starts[k]] = code[p]

\* C17 as amended: every SIGN and UNKNOWN token is one character long; an
\* unrecognized character is its own UNKNOWN token unless it is alphanumeric
\* and follows a character of an identifier or keyword, and then it is part
\* of that token.
C17_UnknownAlone ==
    Lexed => /\ C17_SingleCharacter
             /\ \A p \in 1..Len(code) :
                   C17_Unrecognized(code[p]) =>
                       IF isalnum(code[p]) /\ p > 1 /\ C17_InWord(code, p - 1)
                       THEN C17_InsideWordToken(p) /\ ~C17_OwnUnknown(p)
                       ELSE C17_OwnUnknown(p)

C17_Witness ==
    /\ pc = "lexed"
    /\ code = <<HalfChar, "i", HalfChar>>
    /\ Len(tokens) = 3
    /\ Type(tokens[1]) = "UNKNOWN" /\ Text(tokens[1]) = <<HalfChar>>
    /\ Type(tokens[2]) = "IDENTIFIER" /\ Text(tokens[2]) = <<"i", HalfChar>>

(***************************************************************************)
(* Further properties of the parser.                                       *)
(***************************************************************************)
\* C18: no step of a parse, successful or failing, changes the token sequence
\* the Parser holds, in length, order or content; of the Parser's two
\* attributes only the cursor is written.
C18_TokensUntouched == [][tokens' = tokens]_vars

C18_Witness ==
    /\ pc = "error"
    /\ current >= 10
    /\ tokens \in NearPrograms
    /\ Type(tokens[Len(tokens)]) = "EOF"
    /\ Len(tokens) >= 14

\* the index of the EOF token of a sequence the lexer returned
C19_EOFIndex == Len(tokens) - 1

\* C19: while the tokens the lexer returned are parsed, the cursor is never
\* past the index of the EOF token and peek reads no token past it; when the
\* parse has returned a PROGRAM the cursor is at the EOF token, every token
\* before it consumed.
C19_CursorWithinTokens ==
    pc \in {"parse", "done", "error"} =>
        /\ current <= C19_EOFIndex
        /\ maxread <= C19_EOFIndex
        /\ pc = "done" => /\ current = C19_EOFIndex
                          /\ Type(tokens[current + 1]) = "EOF"

C19_Witness ==
    /\ pc = "done"
    /\ code = ExGroup
    /\ current = 11
    /\ maxread = 11
    /\ C19_EOFIndex = 11

(***************************************************************************)
(* Tokenizing the texts of the returned tokens again.                      *)
(***************************************************************************)
\* the texts of toks with one space between consecutive texts
RECURSIVE C20_JoinWithSpaces(_)
C20_JoinWithSpaces(toks) ==
    IF toks = <<>> THEN <<>>
    ELSE IF Len(toks) = 1 THEN Text(toks[1])
    ELSE Text(Head(toks)) \o <<" ">> \o C20_JoinWithSpaces(Tail(toks))

C20_KindsAndTexts(toks) == [k \in 1..Len(toks) |-> <<Type(toks[k]), Text(toks[k])>>]

\* the texts of the returned tokens other than EOF, joined by single spaces
C20_Joined == C20_JoinWithSpaces(SubSeq(tokens, 1, Len(tokens) - 1))

\* C20: tokenizing the texts of the returned tokens other than EOF, joined by
\* single spaces, gives the kinds and texts of the returned tokens.
C20_RelexSpaceJoined ==
    Lexed => C20_KindsAndTexts(lexical_analyzer_from_text(C20_Joined))
                 = C20_KindsAndTexts(tokens)

C20_Witness ==
    /\ pc = "lexed"
    /\ code = <<"=", "=", "1">>
    /\ C20_Joined = <<"=", "=", " ", "1">>
    /\ C20_KindsAndTexts(lexical_analyzer_from_text(C20_Joined))
           = << <<"OPERATOR", <<"=", "=">>>>, <<"INTEGER", <<"1">>>>, <<"EOF", <<>>>> >>

====
